---- MODULE Spec2Model ----
(***************************************************************************)
(* Model of the executable snippets of the tutorial documents:             *)
(*   - the chi-squared notebook (complete example cell and the two         *)
(*     interpretation snippets),                                           *)
(*   - the sparse-matrix notebook (sparsity cell),                         *)
(*   - the R-markdown chunks (penalized and non-linear regression), as     *)
(*     def/use sequences run in one interpreter session.                   *)
(*                                                                         *)
(* Real numbers are kept in fixed point with four decimals (1.0 is One),  *)
(* so 0.95 is 9500 and 5.9914 is 59914.  A '%.3f' conversion rounds such  *)
(* a value to thousandths.                                                 *)
(***************************************************************************)
EXTENDS Integers, Sequences, FiniteSets, TLC

VARIABLES
    pc, out,                                            \* position in the running cell, its stdout
    table, stat, p, dof, expected, prob, critical, alpha, \* chi-squared notebook
    A, sparsity,                                        \* sparse-matrix notebook
    doc, env, chunk, ip, assigned, ran, crossReads      \* one interpreter session of a document

chiVars == <<table, stat, p, dof, expected, prob, critical, alpha>>

sparseVars == <<A, sparsity>>

sessionVars == <<doc, env, chunk, ip, assigned, ran, crossReads>>

vars == <<pc, out, chiVars, sparseVars, sessionVars>>

None == "None"

\* ------------------------------------------------------------------------
\* bounds
MaxCount == 3

MaxDof == 4

Spread == 3

MaxEntry == 2

\* 1.0 in fixed point (four decimals)
One == 10000

\* ------------------------------------------------------------------------
\* arithmetic helpers
Abs(x) == IF x < 0 THEN 0 - x ELSE x

RECURSIVE Gcd(_, _)
Gcd(a, b) == IF b = 0 THEN a ELSE Gcd(b, a % b)

\* a rational is <<numerator, denominator>>, denominator > 0, reduced
Reduce(n, d) == LET g == Gcd(Abs(n), d) IN <<n \div g, d \div g>>

RatAdd(x, y) ==
    LET g == Gcd(x[2], y[2])
        l == (x[2] \div g) * y[2]
    IN Reduce(x[1] * (l \div x[2]) + y[1] * (l \div y[2]), l)

RatSub(x, y) == RatAdd(x, <<0 - y[1], y[2]>>)

RatMul(x, y) == Reduce(x[1] * y[1], x[2] * y[2])

\* x / y for y > 0
RatDiv(x, y) == Reduce(x[1] * y[2], x[2] * y[1])

RatAbs(x) == <<Abs(x[1]), x[2]>>

RatMin(x, y) == IF x[1] * y[2] <= y[1] * x[2] THEN x ELSE y

RatSign(x) == IF x[1] > 0 THEN <<1, 1>> ELSE IF x[1] < 0 THEN <<0 - 1, 1>> ELSE <<0, 1>>

\* long division: k more decimal digits of (q + r/d)
RECURSIVE LongDiv(_, _, _, _)
LongDiv(q, r, d, k) ==
    IF k = 0 THEN q
    ELSE LongDiv(q * 10 + ((r * 10) \div d), (r * 10) % d, d, k - 1)

\* a non-negative rational as a fixed-point number (four decimals)
ToFixed(x) == LongDiv(x[1] \div x[2], x[1] % x[2], x[2], 4)

\* '%.3f' of a fixed-point number: thousandths, rounded
Fmt3(x) == (x + 5) \div 10

\* a non-negative rational rounded to 8 decimals, as printed for an array
Fmt8(x) ==
    LET f9 == LongDiv(0, x[1] % x[2], x[2], 9)
        f8 == (f9 + 5) \div 10
    IN IF f8 = 100000000 THEN <<(x[1] \div x[2]) + 1, 0>>
       ELSE <<x[1] \div x[2], f8>>

RECURSIVE SumSeq(_)
SumSeq(s) == IF s = <<>> THEN 0 ELSE s[1] + SumSeq(Tail(s))

RECURSIVE RatSumSeq(_)
RatSumSeq(s) == IF s = <<>> THEN <<0, 1>> ELSE RatAdd(s[1], RatSumSeq(Tail(s)))

\* ------------------------------------------------------------------------
\* contingency tables
NRows(t) == Len(t)

NCols(t) == Len(t[1])

RowSum(t, i) == SumSeq(t[i])

ColSum(t, j) == SumSeq([i \in 1..NRows(t) |-> t[i][j]])

Total(t) == SumSeq([i \in 1..NRows(t) |-> RowSum(t, i)])

\* the table of the complete example
ExampleTable == << <<10, 20, 30>>, <<6, 9, 17>> >>

\* the Sex / Interest table of the contingency-table section
InterestTable == << <<20, 30, 15>>, <<20, 15, 30>> >>

Shapes == { <<2, 2>>, <<2, 3>>, <<3, 2>> }

\* tables of counts with at least one observation
Tables ==
    {ExampleTable, InterestTable} \cup
    { t \in UNION { [1..s[1] -> [1..s[2] -> 0..MaxCount]] : s \in Shapes } :
        Total(t) > 0 }

\* ------------------------------------------------------------------------
\* scipy.stats.chi2_contingency(table), default arguments

\* expected frequencies under independence: row total * column total / total
expected_freq(t) ==
    [i \in 1..NRows(t) |->
        [j \in 1..NCols(t) |-> Reduce(RowSum(t, i) * ColSum(t, j), Total(t))]]

HasZeroExpected(e) ==
    \E i \in DOMAIN e : \E j \in DOMAIN e[i] : e[i][j][1] = 0

\* the degrees of freedom without the final "- 1"
DegreesOfFreedomOffByOne(e) ==
    LET size  == Len(e) * Len(e[1])
        shape == <<Len(e), Len(e[1])>>
        ndim  == 2
    IN size - SumSeq(shape) + ndim

\* dof = expected.size - sum(expected.shape) + expected.ndim - 1
DegreesOfFreedom(e) ==
    LET size  == Len(e) * Len(e[1])
        shape == <<Len(e), Len(e[1])>>
        ndim  == 2
    IN size - SumSeq(shape) + ndim - 1

\* Yates' correction for continuity: move each observation up to 0.5
\* towards its expected frequency
YatesObserved(o, e) ==
    LET diff == RatSub(e, o)
    IN RatAdd(o, RatMul(RatMin(<<1, 2>>, RatAbs(diff)), RatSign(diff)))

\* Pearson's statistic: sum((observed - expected)^2 / expected)
PearsonTerm(o, e) == RatDiv(RatMul(RatSub(o, e), RatSub(o, e)), e)

\* the statistic with the continuity correction applied whatever the
\* degrees of freedom
PearsonStatisticAlwaysYates(t, e, df) ==
    LET obs(i, j) == YatesObserved(<<t[i][j], 1>>, e[i][j])
        rowterm(i) == RatSumSeq([j \in 1..NCols(t) |-> PearsonTerm(obs(i, j), e[i][j])])
    IN RatSumSeq([i \in 1..NRows(t) |-> rowterm(i)])

PearsonStatistic(t, e, df) ==
    LET obs(i, j) == IF df = 1 THEN YatesObserved(<<t[i][j], 1>>, e[i][j])
                     ELSE <<t[i][j], 1>>
        rowterm(i) == RatSumSeq([j \in 1..NCols(t) |-> PearsonTerm(obs(i, j), e[i][j])])
    IN RatSumSeq([i \in 1..NRows(t) |-> rowterm(i)])

\* ------------------------------------------------------------------------
\* the chi-squared distribution, by its quantiles: for each number of
\* degrees of freedom, <<upper-tail probability, quantile>> in fixed point
Chi2Quantiles ==
    << << <<9000, 157>>, <<7500, 1015>>, <<5000, 4549>>, <<2500, 13233>>,
          <<1000, 27055>>, <<500, 38414>>, <<250, 50238>>, <<100, 66348>> >>,
       << <<9000, 2107>>, <<7500, 5753>>, <<5000, 13862>>, <<2500, 27725>>,
          <<1000, 46051>>, <<500, 59914>>, <<250, 73777>>, <<100, 92103>> >>,
       << <<9000, 5843>>, <<7500, 12125>>, <<5000, 23659>>, <<2500, 41083>>,
          <<1000, 62513>>, <<500, 78147>>, <<250, 93484>>, <<100, 113448>> >>,
       << <<9000, 10636>>, <<7500, 19225>>, <<5000, 33566>>, <<2500, 53852>>,
          <<1000, 77794>>, <<500, 94877>>, <<250, 111432>>, <<100, 132767>> >>,
       << <<9000, 16103>>, <<7500, 26746>>, <<5000, 43514>>, <<2500, 66256>>,
          <<1000, 92363>>, <<500, 110704>>, <<250, 128325>>, <<100, 150862>> >>,
       << <<9000, 22041>>, <<7500, 34545>>, <<5000, 53481>>, <<2500, 78408>>,
          <<1000, 106446>>, <<500, 125915>>, <<250, 144493>>, <<100, 168118>> >> >>

\* chi2.ppf(q, df): the value x with cdf(x) = q
chi2_ppf(q, df) ==
    LET nodes == Chi2Quantiles[df]
        k == CHOOSE n \in DOMAIN nodes : nodes[n][1] = One - q
    IN nodes[k][2]

\* chi2.sf(x, df) = 1 - cdf(x), known up to the bracket of quantiles around
\* x: an interval [lo, hi] of fixed-point values that holds the p-value
chi2_sf(x, df) ==
    LET nodes == Chi2Quantiles[df]
        below == { n \in DOMAIN nodes : nodes[n][2] <= x }
        k == IF below = {} THEN 0 ELSE CHOOSE n \in below : \A m \in below : m <= n
    IN [lo |-> IF k = Len(nodes) THEN 0 ELSE nodes[k + 1][1] + 1,
        hi |-> IF k = 0 THEN One ELSE nodes[k][1]]

\* stat, p, dof, expected = chi2_contingency(table); raises ValueError when
\* an expected frequency is zero
chi2_contingency(t) ==
    LET e  == expected_freq(t)
        df == DegreesOfFreedom(e)
        x  == ToFixed(PearsonStatistic(t, e, df))
    IN IF HasZeroExpected(e) THEN [raised |-> TRUE]
       ELSE [raised |-> FALSE, stat |-> x, p |-> chi2_sf(x, df),
             dof |-> df, expected |-> e]

\* ------------------------------------------------------------------------
\* the two interpretations
Dependent == "Dependent (reject H0)"

Independent == "Independent (fail to reject H0)"

\* the test with a strict comparison
StatisticVerdictStrict(s, c) == IF Abs(s) > c THEN Dependent ELSE Independent

\* the test with the comparison turned around
StatisticVerdictInverted(s, c) == IF Abs(s) <= c THEN Dependent ELSE Independent

\* if abs(stat) >= critical: ... else: ...
StatisticVerdict(s, c) == IF Abs(s) >= c THEN Dependent ELSE Independent

\* the significance level taken to be the probability itself
SignificanceIsProb(q) == q

\* alpha = 1.0 - prob
Significance(q) == One - q

\* the test with a strict comparison
PValueVerdictStrict(v, a) == IF v < a THEN Dependent ELSE Independent

\* if p <= alpha: ... else: ...   for a p-value v
PValueVerdict(v, a) == IF v <= a THEN Dependent ELSE Independent

\* the verdicts the p-value branch can print for a p-value within [lo, hi]
PValueVerdicts(pv, a) == { PValueVerdict(v, a) : v \in {pv.lo, pv.hi} \cup ({a, a + 1} \cap (pv.lo..pv.hi)) }

\* ------------------------------------------------------------------------
\* the complete example cell, run on a contingency table
Init ==
    /\ pc = "print_table"
    /\ out = <<>>
    /\ table \in Tables
    /\ stat = None /\ p = None /\ dof = None /\ expected = None
    /\ prob = None /\ critical = None /\ alpha = None
    /\ A = None /\ sparsity = None
    /\ doc = None /\ env = None /\ chunk = None /\ ip = None /\ assigned = None
    /\ ran = None /\ crossReads = None

\* print(table)
PrintTable ==
    /\ pc = "print_table"
    /\ out' = Append(out, <<"table", table>>)
    /\ pc' = "chi2_contingency"
    /\ UNCHANGED <<table, stat, p, dof, expected, prob, critical, alpha, sparseVars, sessionVars>>

\* stat, p, dof, expected = chi2_contingency(table)
CallChi2Contingency ==
    /\ pc = "chi2_contingency"
    /\ LET r == chi2_contingency(table)
       IN IF r.raised
          THEN /\ pc' = "raised"
               /\ UNCHANGED <<stat, p, dof, expected>>
          ELSE /\ pc' = "print_dof"
               /\ stat' = r.stat /\ p' = r.p /\ dof' = r.dof
               /\ expected' = r.expected
    /\ UNCHANGED <<out, table, prob, critical, alpha, sparseVars, sessionVars>>

\* print('dof=%d' % dof)
PrintDof ==
    /\ pc = "print_dof"
    /\ out' = Append(out, <<"dof", dof>>)
    /\ pc' = "print_expected"
    /\ UNCHANGED <<table, stat, p, dof, expected, prob, critical, alpha, sparseVars, sessionVars>>

\* print(expected)
PrintExpected ==
    /\ pc = "print_expected"
    /\ out' = Append(out, <<"expected",
                 [i \in DOMAIN expected |->
                     [j \in DOMAIN expected[i] |-> Fmt8(expected[i][j])]]>>)
    /\ pc' = "interpret_statistic"
    /\ UNCHANGED <<table, stat, p, dof, expected, prob, critical, alpha, sparseVars, sessionVars>>

\* interpret test-statistic
InterpretStatistic ==
    /\ pc = "interpret_statistic"
    /\ prob' = 9500
    /\ critical' = chi2_ppf(prob', dof)
    /\ out' = out \o << <<"probability", Fmt3(prob'), "critical", Fmt3(critical'),
                          "stat", Fmt3(stat)>>,
                        <<"statistic verdict", StatisticVerdict(stat, critical')>> >>
    /\ pc' = "interpret_pvalue"
    /\ UNCHANGED <<table, stat, p, dof, expected, alpha, sparseVars, sessionVars>>

\* interpret p-value
InterpretPValue ==
    /\ pc = "interpret_pvalue"
    /\ alpha' = Significance(prob)
    /\ \E v \in PValueVerdicts(p, alpha') :
         out' = out \o << <<"significance", Fmt3(alpha'), "p", Fmt3(p.lo), Fmt3(p.hi)>>,
                          <<"p-value verdict", v>> >>
    /\ pc' = "done"
    /\ UNCHANGED <<table, stat, p, dof, expected, prob, critical, sparseVars, sessionVars>>

Next ==
    \/ PrintTable
    \/ CallChi2Contingency
    \/ PrintDof
    \/ PrintExpected
    \/ InterpretStatistic
    \/ InterpretPValue

Spec == Init /\ [][Next]_vars

\* ------------------------------------------------------------------------
\* the two interpretation snippets, run on a statistic, a number of degrees
\* of freedom and a p-value already in the namespace
StatInputs(df) == {0} \cup { chi2_ppf(9500, df) + d : d \in (0 - Spread)..Spread }

PInputs == {0, One} \cup { 500 + d : d \in (0 - Spread)..Spread }

InitSnippet ==
    /\ pc = "snippet_statistic"
    /\ out = <<>>
    /\ dof \in 1..MaxDof
    /\ stat \in StatInputs(dof)
    /\ \E v \in PInputs : p = [lo |-> v, hi |-> v]
    /\ table = None /\ expected = None
    /\ prob = None /\ critical = None /\ alpha = None
    /\ A = None /\ sparsity = None
    /\ doc = None /\ env = None /\ chunk = None /\ ip = None /\ assigned = None
    /\ ran = None /\ crossReads = None

\* interpret test-statistic (snippet)
SnippetInterpretStatistic ==
    /\ pc = "snippet_statistic"
    /\ prob' = 9500
    /\ critical' = chi2_ppf(prob', dof)
    /\ out' = Append(out, <<"statistic verdict", StatisticVerdict(stat, critical')>>)
    /\ pc' = "snippet_pvalue"
    /\ UNCHANGED <<table, stat, p, dof, expected, alpha, sparseVars, sessionVars>>

\* interpret p-value (snippet)
SnippetInterpretPValue ==
    /\ pc = "snippet_pvalue"
    /\ alpha' = Significance(prob)
    /\ \E v \in PValueVerdicts(p, alpha') :
         out' = Append(out, <<"p-value verdict", v>>)
    /\ pc' = "snippet_done"
    /\ UNCHANGED <<table, stat, p, dof, expected, prob, critical, sparseVars, sessionVars>>

NextSnippet ==
    \/ SnippetInterpretStatistic
    \/ SnippetInterpretPValue

SpecSnippet == InitSnippet /\ [][NextSnippet]_vars

\* ------------------------------------------------------------------------
\* the sparsity cell of the sparse-matrix notebook (Python 2 kernel)
ExampleMatrix == << <<1, 0, 0, 1, 0, 0>>, <<0, 0, 2, 0, 0, 1>>, <<0, 0, 0, 2, 0, 0>> >>

MatrixShapes == { <<2, 2>>, <<2, 3>> }

Matrices ==
    {ExampleMatrix} \cup
    UNION { [1..s[1] -> [1..s[2] -> 0..MaxEntry]] : s \in MatrixShapes }

\* A.size
Size(m) == Len(m) * Len(m[1])

\* count_nonzero(A)
count_nonzero(m) ==
    SumSeq([i \in 1..Len(m) |->
               Cardinality({ j \in 1..Len(m[i]) : m[i][j] # 0 })])

\* number of zero values of a matrix
CountZero(m) == Size(m) - count_nonzero(m)

\* a / b for two Python 2 ints: floor division
IntDiv(a, b) == a \div b

\* sparsity = 1.0 - count_nonzero(A) / A.size
Sparsity(m) == ToFixed(RatSub(<<1, 1>>, <<IntDiv(count_nonzero(m), Size(m)), 1>>))

InitSparse ==
    /\ pc = "print_A"
    /\ out = <<>>
    /\ A \in Matrices
    /\ sparsity = None
    /\ table = None /\ stat = None /\ p = None /\ dof = None /\ expected = None
    /\ prob = None /\ critical = None /\ alpha = None
    /\ doc = None /\ env = None /\ chunk = None /\ ip = None /\ assigned = None
    /\ ran = None /\ crossReads = None

\* print(A)
PrintA ==
    /\ pc = "print_A"
    /\ out' = Append(out, <<"A", A>>)
    /\ pc' = "calc_sparsity"
    /\ UNCHANGED <<chiVars, sparseVars, sessionVars>>

\* sparsity = 1.0 - count_nonzero(A) / A.size
CalcSparsity ==
    /\ pc = "calc_sparsity"
    /\ sparsity' = Sparsity(A)
    /\ pc' = "print_sparsity"
    /\ UNCHANGED <<out, A, chiVars, sessionVars>>

\* print(sparsity)
PrintSparsity ==
    /\ pc = "print_sparsity"
    /\ out' = Append(out, <<"sparsity", sparsity>>)
    /\ pc' = "sparse_done"
    /\ UNCHANGED <<chiVars, sparseVars, sessionVars>>

NextSparse ==
    \/ PrintA
    \/ CalcSparsity
    \/ PrintSparsity

SpecSparse == InitSparse /\ [][NextSparse]_vars

\* ------------------------------------------------------------------------
\* the chunks of a document, run in any order in one interpreter session.
\* A statement is the set of names it reads and the set of names it assigns.
St(r, w) == [reads |-> r, writes |-> w]

\* penalized regression: ridge regression
RidgeChunk ==
    << St({}, {}),                                \* library(glmnet)
       St({}, {"longley"}),                       \* data(longley)
       St({"longley"}, {"x"}),                    \* x <- as.matrix(longley[,1:6])
       St({"longley"}, {"y"}),                    \* y <- as.matrix(longley[,7])
       St({"x", "y"}, {"fit"}),                   \* fit <- glmnet(x, y, ...)
       St({"fit"}, {}),                           \* summary(fit)
       St({"fit", "x"}, {"predictions"}),         \* predictions <- predict(fit, x, type="link")
       St({"y", "predictions"}, {"mse"}),         \* mse <- mean((y - predictions)^2)
       St({"mse"}, {}) >>                         \* print(mse)

\* penalized regression: LASSO
LassoChunk ==
    << St({}, {}),                                \* library(lars)
       St({}, {"longley"}),                       \* data(longley)
       St({"longley"}, {"x"}),                    \* x <- as.matrix(longley[,1:6])
       St({"longley"}, {"y"}),                    \* y <- as.matrix(longley[,7])
       St({"x", "y"}, {"fit"}),                   \* fit <- lars(x, y, type="lasso")
       St({"fit"}, {}),                           \* summary(fit)
       St({"fit"}, {"best_step"}),                \* best_step <- fit$df[which.min(fit$RSS)]
       St({"fit", "x", "best_step"}, {"predictions"}), \* predictions <- predict(fit, x, s=best_step, ...)$fit
       St({"y", "predictions"}, {"mse"}),         \* mse <- mean((y - predictions)^2)
       St({"mse"}, {}) >>                         \* print(mse)

\* penalized regression: elastic net
ElasticNetChunk ==
    << St({}, {}),                                \* library(glmnet)
       St({}, {"longley"}),                       \* data(longley)
       St({"longley"}, {"x"}),                    \* x <- as.matrix(longley[,1:6])
       St({"longley"}, {"y"}),                    \* y <- as.matrix(longley[,7])
       St({"x", "y"}, {"fit"}),                   \* fit <- glmnet(x, y, ...)
       St({"fit"}, {}),                           \* summary(fit)
       St({"fit", "x"}, {"predictions"}),         \* predictions <- predict(fit, x, type="link")
       St({"y", "predictions"}, {"mse"}),         \* mse <- mean((y - predictions)^2)
       St({"mse"}, {}) >>                         \* print(mse)

\* non-linear regression: support vector machine
SvmChunk ==
    << St({}, {}),                                \* library(kernlab)
       St({}, {"longley"}),                       \* data(longley)
       St({"longley"}, {"fit"}),                  \* fit <- ksvm(Employed~., longley)
       St({"fit"}, {}),                           \* summary(fit)
       St({"fit", "longley"}, {"predictions"}),   \* predictions <- predict(fit, longley)
       St({"longley", "predictions"}, {"mse"}),   \* mse <- mean((longley$Employed - predictions)^2)
       St({"mse"}, {}) >>                         \* print(mse)

\* the k-nearest neighbor chunk predicting from x, which it never assigns
KnnChunkReadsX ==
    << St({}, {}),
       St({}, {"longley"}),
       St({"longley"}, {"fit"}),
       St({"fit"}, {}),
       St({"fit", "x"}, {"predictions"}),         \* predict(fit, x) without assigning x
       St({"longley", "predictions"}, {"mse"}),
       St({"mse"}, {}) >>

\* non-linear regression: k-nearest neighbor
KnnChunk ==
    << St({}, {}),                                \* library(caret)
       St({}, {"longley"}),                       \* data(longley)
       St({"longley"}, {"fit"}),                  \* fit <- knnreg(longley[,1:6], longley[,7], k=3)
       St({"fit"}, {}),                           \* summary(fit)
       St({"fit", "longley"}, {"predictions"}),   \* predictions <- predict(fit, longley[,1:6])
       St({"longley", "predictions"}, {"mse"}),   \* mse <- mean((longley$Employed - predictions)^2)
       St({"mse"}, {}) >>                         \* print(mse)

\* non-linear regression: neural network
NnetChunk ==
    << St({}, {}),                                \* library(nnet)
       St({}, {"longley"}),                       \* data(longley)
       St({"longley"}, {"x"}),                    \* x <- longley[,1:6]
       St({"longley"}, {"y"}),                    \* y <- longley[,7]
       St({"longley"}, {"fit"}),                  \* fit <- nnet(Employed~., longley, ...)
       St({"fit"}, {}),                           \* summary(fit)
       St({"fit", "x"}, {"predictions"}),         \* predictions <- predict(fit, x, type="raw")
       St({"y", "predictions"}, {"mse"}),         \* mse <- mean((y - predictions)^2)
       St({"mse"}, {}) >>                         \* print(mse)

\* chi-squared notebook: the executed cell (complete example)
Chi2ExampleCell ==
    << St({}, {"chi2_contingency"}),              \* from scipy.stats import chi2_contingency
       St({}, {"chi2"}),                          \* from scipy.stats import chi2
       St({}, {"table"}),                         \* table = [[10, 20, 30], [6, 9, 17]]
       St({"table"}, {}),                         \* print(table)
       St({"chi2_contingency", "table"}, {"stat", "p", "dof", "expected"}),
       St({"dof"}, {}),                           \* print('dof=%d' % dof)
       St({"expected"}, {}),                      \* print(expected)
       St({}, {"prob"}),                          \* prob = 0.95
       St({"chi2", "prob", "dof"}, {"critical"}), \* critical = chi2.ppf(prob, dof)
       St({"prob", "critical", "stat"}, {}),      \* print('probability=...')
       St({"stat", "critical"}, {}),              \* if abs(stat) >= critical: print(...)
       St({"prob"}, {"alpha"}),                   \* alpha = 1.0 - prob
       St({"alpha", "p"}, {}),                    \* print('significance=...')
       St({"p", "alpha"}, {}) >>                  \* if p <= alpha: print(...)

\* sparse-matrix notebook: dense to sparse
DenseToSparseCell ==
    << St({}, {"array"}),                         \* from numpy import array
       St({}, {"csr_matrix"}),                    \* from scipy.sparse import csr_matrix
       St({"array"}, {"A"}),                      \* A = array([...])
       St({"A"}, {}),                             \* print(A)
       St({"csr_matrix", "A"}, {"S"}),            \* S = csr_matrix(A)
       St({"S"}, {}),                             \* print(S)
       St({"S"}, {"B"}),                          \* B = S.todense()
       St({"B"}, {}) >>                           \* print(B)

\* sparse-matrix notebook: calculate sparsity
CalcSparsityCell ==
    << St({}, {"array"}),                         \* from numpy import array
       St({}, {"count_nonzero"}),                 \* from numpy import count_nonzero
       St({"array"}, {"A"}),                      \* A = array([...])
       St({"A"}, {}),                             \* print(A)
       St({"count_nonzero", "A"}, {"sparsity"}),  \* sparsity = 1.0 - count_nonzero(A) / A.size
       St({"sparsity"}, {}) >>                    \* print(sparsity)

\* the executable chunks / executed cells of each document
Documents ==
    [penalized |-> <<RidgeChunk, LassoChunk, ElasticNetChunk>>,
     nonlinear |-> <<SvmChunk, KnnChunk, NnetChunk>>,
     chi2      |-> <<Chi2ExampleCell>>,
     sparse    |-> <<DenseToSparseCell, CalcSparsityCell>>]

Names ==
    UNION { UNION { UNION { d[c][i].reads \cup d[c][i].writes : i \in DOMAIN d[c] } :
                    c \in DOMAIN d } :
            d \in { Documents[k] : k \in DOMAIN Documents } }

\* a fresh session of one document: no name is bound (0), no chunk runs (0)
InitSession ==
    /\ pc = "idle"
    /\ out = <<>>
    /\ doc \in DOMAIN Documents
    /\ env = [n \in Names |-> 0]
    /\ chunk = 0 /\ ip = 0 /\ assigned = {}
    /\ ran = {} /\ crossReads = {}
    /\ table = None /\ stat = None /\ p = None /\ dof = None /\ expected = None
    /\ prob = None /\ critical = None /\ alpha = None
    /\ A = None /\ sparsity = None

\* run a chunk of the document
RunChunk ==
    /\ pc = "idle"
    /\ \E c \in DOMAIN Documents[doc] : chunk' = c
    /\ ip' = 1
    /\ assigned' = {}
    /\ pc' = "running"
    /\ UNCHANGED <<out, doc, env, ran, crossReads, chiVars, sparseVars>>

\* execute the next statement of the running chunk: every name it reads is
\* looked up in the session (a read of a name this run of the chunk has not
\* assigned is recorded with the chunk that bound it, 0 when unbound; an
\* unbound name stops the chunk), then the names it assigns are bound
ExecStatement ==
    /\ pc = "running"
    /\ LET st      == Documents[doc][chunk][ip]
           foreign == st.reads \ assigned
           unbound == { n \in st.reads : env[n] = 0 }
           last    == ip = Len(Documents[doc][chunk])
       IN /\ crossReads' = crossReads \cup { <<chunk, n, env[n]>> : n \in foreign }
          /\ env' = IF unbound # {} THEN env
                    ELSE [n \in Names |-> IF n \in st.writes THEN chunk ELSE env[n]]
          /\ IF unbound # {} \/ last
             THEN /\ pc' = "idle" /\ chunk' = 0 /\ ip' = 0 /\ assigned' = {}
                  /\ ran' = ran \cup {chunk}
             ELSE /\ pc' = "running" /\ ip' = ip + 1
                  /\ assigned' = assigned \cup st.writes
                  /\ UNCHANGED <<chunk, ran>>
    /\ UNCHANGED <<out, doc, chiVars, sparseVars>>

NextSession ==
    \/ RunChunk
    \/ ExecStatement

SpecSession == InitSession /\ [][NextSession]_vars

\* ------------------------------------------------------------------------
\* properties

\* the lines of a kind printed so far
Lines(kind) == { i \in DOMAIN out : out[i][1] = kind }

\* C1: the complete example on [[10,20,30],[6,9,17]] prints the chi-squared
\* statistic as 0.272 (Pearson's statistic rounded to three decimals) and
\* the degrees of freedom as 2
C1_ExampleOutput ==
    (table = ExampleTable /\ pc = "done") =>
        /\ \E i \in Lines("dof") : out[i][2] = 2
        /\ \E i \in Lines("probability") : out[i][5] = "stat" /\ out[i][6] = 272
        /\ Cardinality(Lines("dof")) = 1
        /\ Cardinality(Lines("probability")) = 1

C1_Witness ==
    /\ table = ExampleTable
    /\ pc = "done"
    /\ Lines("probability") # {}

\* C2: for every table with r >= 2 rows and c >= 2 columns the degrees of
\* freedom reported are (r - 1) * (c - 1); 2 for the example table
C2_DegreesOfFreedom ==
    /\ \A i \in Lines("dof") :
          /\ NRows(table) >= 2 /\ NCols(table) >= 2
          /\ out[i][2] = (NRows(table) - 1) * (NCols(table) - 1)
          /\ table = ExampleTable => out[i][2] = 2
    /\ pc \in {"print_expected", "interpret_statistic", "interpret_pvalue", "done"}
          => Lines("dof") # {}

C2_Witness ==
    /\ pc = "print_expected"
    /\ NRows(table) = 3 /\ NCols(table) = 2
    /\ \E i \in Lines("dof") : out[i][2] = 2

C4_PValueVerdict ==
    pc = "snippet_done" =>
        /\ alpha = One - prob
        /\ Cardinality(Lines("p-value verdict")) = 1
        /\ \A i \in Lines("p-value verdict") :
              /\ out[i][2] \in {Dependent, Independent}
              /\ out[i][2] = Dependent <=> p.hi <= alpha
              /\ out[i][2] = Independent <=> p.lo > alpha

C4_Witness ==
    /\ pc = "snippet_done"
    /\ p.lo = alpha /\ p.hi = alpha
    /\ \E i \in Lines("p-value verdict") : out[i][2] = Dependent

\* C5: for every contingency table the verdict of the test-statistic branch
\* and the verdict of the p-value branch are the same string
C5_SameFinding ==
    pc = "done" =>
        /\ Lines("statistic verdict") # {}
        /\ Lines("p-value verdict") # {}
        /\ \A i \in Lines("statistic verdict") : \A j \in Lines("p-value verdict") :
              out[i][2] = out[j][2]

C5_Witness ==
    /\ pc = "done"
    /\ \E i \in Lines("statistic verdict") : out[i][2] = Dependent
    /\ \E j \in Lines("p-value verdict") : out[j][2] = Dependent

C7_SparsityScore ==
    (pc = "sparse_done" /\ A = ExampleMatrix) =>
        /\ CountZero(A) = 13 /\ Size(A) = 18
        /\ \A i \in Lines("sparsity") :
              /\ out[i][2] = ToFixed(<<CountZero(A), Size(A)>>)
              /\ Fmt3(out[i][2]) = 722

\* C8: every name a chunk or executed cell reads is assigned earlier in the
\* same run of that chunk, so in every order of running the chunks of a
\* document no chunk reads a value bound by another chunk
C8_NoSharedState == crossReads = {}

\* a chunk is running while a name it is still to read is bound by another
\* chunk
C8_Witness ==
    /\ pc = "running"
    /\ ran # {}
    /\ \E n \in Names : \E j \in ip..Len(Documents[doc][chunk]) :
          /\ n \in Documents[doc][chunk][j].reads
          /\ env[n] \notin {0, chunk}

====
